---- MODULE Spec2Model ----
(***************************************************************************)
(* Model of medium-discord-alerts/main.py: the per-job pipeline            *)
(* send_updates (load_sent, fetch_new_entries, post_to_discord, save_sent) *)
(* and the coordinator main that runs two jobs on a ThreadPoolExecutor.    *)
(*                                                                         *)
(* Environment choices that the code reacts to are nondeterministic: the   *)
(* feed content, a hard fetch failure, the outcome of each webhook POST,   *)
(* the initial content of the state file and a KeyboardInterrupt in the    *)
(* main thread.  Writing the state file is assumed to succeed.             *)
(* Worker threads of the pool are non-daemon: they keep running after main *)
(* has ended and the interpreter joins them before the process exits.      *)
(***************************************************************************)
EXTENDS Integers, Sequences, FiniteSets, TLC

\* ---------------------------------------------------------------- bounds
MaxFeedLen == 3        \* longest feed drawn for the single-job runs
MaxPosts == 3          \* largest MAX_POSTS drawn
MaxRuns == 2           \* successive runs of one job
MaxInterrupts == 1     \* KeyboardInterrupts delivered to the main thread
MaxOverlapFeedLen == 2 \* longest feed drawn for overlapping invocations

Jobs == {1, 2}
NJobs == 2

\* ------------------------------------------------------- python helpers
None == "<None>"

\* dict.get(key, default)
Get(d, key, default) == IF key \in DOMAIN d THEN d[key] ELSE default

\* truthiness of an optional string
Truthy(x) == x # None /\ x # ""

\* a or b
PyOr(a, b) == IF Truthy(a) THEN a ELSE b

\* hashlib.sha256(raw).hexdigest(), idealised as collision free
Sha256Hex(raw) == "sha256:" \o raw

\* mutant: the published date is hashed with title and link
stable_idHashingPublished(entry) ==
    LET guid == PyOr(Get(entry, "id", None), Get(entry, "guid", None))
    IN  IF Truthy(guid)
        THEN guid
        ELSE Sha256Hex(Get(entry, "title", "") \o "|" \o Get(entry, "link", "")
                         \o Get(entry, "published", ""))

stable_id(entry) ==
    LET guid == PyOr(Get(entry, "id", None), Get(entry, "guid", None))
    IN  IF Truthy(guid)
        THEN guid
        ELSE Sha256Hex(Get(entry, "title", "") \o "|" \o Get(entry, "link", ""))

\* ------------------------------------------------------- input universe
EntryA == [id |-> "g1", title |-> "t1", link |-> "l1"]
EntryB == [title |-> "t2", link |-> "l2"]
EntryD == [guid |-> "g1", id |-> "", title |-> "t3", link |-> "l1"]
Entries == {EntryA, EntryB, EntryD}

\* every identity the entries can have, in lexicographic (code point) order
IdOrder == <<"g1", "sha256:t2|l2">>

Range(s) == {s[n] : n \in 1..Len(s)}

FeedsUpTo(n) == UNION {[1..m -> Entries] : m \in 0..n}

\* feeds drawn under the coordinator: empty, one entry, two entries
CoordFeeds == {<<>>, <<EntryA>>, <<EntryB, EntryA>>}

\* ----------------------------------------------------------- state file
FileMissing == [kind |-> "missing"]
FileCorrupt == [kind |-> "corrupt"]
JsonFile(data) == [kind |-> "json", data |-> data]

\* sorted(list(sent_ids))
Sorted(S) == SelectSeq(IdOrder, LAMBDA x : x \in S)

load_sent(f) ==
    IF f.kind = "missing" THEN {}
    ELSE IF f.kind = "corrupt" THEN {}
    ELSE Range(Get(f.data, "sent_ids", <<>>))

save_sent(ids) == JsonFile([sent_ids |-> Sorted(ids)])

InitFiles ==
    {FileMissing, FileCorrupt, JsonFile([other |-> <<>>])}
      \cup {save_sent(S) : S \in SUBSET Range(IdOrder)}

\* ------------------------------------------------------------- fetching
\* entries[:n]
\* mutant: the slice is forgotten
SliceUntruncated(entries, n) == entries

Slice(entries, n) ==
    IF n >= 0
    THEN SubSeq(entries, 1, IF n < Len(entries) THEN n ELSE Len(entries))
    ELSE SubSeq(entries, 1, IF Len(entries) + n > 0 THEN Len(entries) + n ELSE 0)

\* mutant: the list is not reversed
ReverseKeptOrder(s) == s

Reverse(s) == [n \in 1..Len(s) |-> s[Len(s) + 1 - n]]

\* mutant: the sent-state is not consulted
IsNewIgnoringSent(e, sent) == TRUE

IsNew(e, sent) == stable_id(e) \notin sent

fetch_new_entries(entries_all, sent, max_posts) ==
    LET entries == Slice(entries_all, max_posts)
        new == SelectSeq(entries, LAMBDA e : IsNew(e, sent))
    IN  Reverse(new)

\* ---------------------------------------------------------------- state
VARIABLES
    MAX_POSTS,     \* module constant read from the environment
    webhook,       \* job -> webhook URL ("" when unset)
    feed_url,      \* job -> feed URL ("" when unset)
    state_file,    \* job -> path of the job's state file
    feed,          \* job -> entries currently served at the feed URL
    file,          \* path -> content of the state file at that path
    pc,            \* job -> position of the pipeline
    sent_ids,      \* job -> local sent_ids of send_updates
    new_entries,   \* job -> local new_entries of send_updates
    pos,           \* job -> number of loop iterations completed
    trace,         \* job -> I/O performed by the current run
    startFile,     \* job -> state file content when the run started
    runs,          \* job -> number of runs started
    prev,          \* job -> summary of the previous run
    recorded,      \* job -> identities persisted after a successful delivery in an earlier run
    mainpc,        \* position of main
    fut,           \* index into futures of main's for loop
    mainExc,       \* exception propagating out of main, or None
    mainLog,       \* messages logged by main
    interrupts,    \* KeyboardInterrupts delivered so far
    id_args,       \* entries handed to stable_id
    id_out         \* identities stable_id returned for them

jobVars == <<file, pc, sent_ids, new_entries, pos, trace, startFile>>
runVars == <<runs, prev, recorded, feed>>
cfgVars == <<MAX_POSTS, webhook, feed_url, state_file>>
mainVars == <<mainpc, fut, mainExc, mainLog, interrupts>>
idVars == <<id_args, id_out>>
vars == <<cfgVars, jobVars, runVars, mainVars, idVars>>

Terminal == {"Done", "AbortedConfig", "AbortedFetch"}

NoPrev == [valid |-> FALSE]

Posts(tr) == SelectSeq(tr, LAMBDA ev : ev.op = "post")
Saves(tr) == SelectSeq(tr, LAMBDA ev : ev.op = "save")
Okays(tr) == SelectSeq(tr, LAMBDA ev : ev.op = "post" /\ ev.ok)
Fails(tr) == SelectSeq(tr, LAMBDA ev : ev.op = "post" /\ ~ev.ok)

\* ----------------------------------------------------------------- init
FASTAPI_FILE == "fastapi_sent_ids.json"
ML_FILE == "ml_sent_ids.json"
StateFiles == {FASTAPI_FILE, ML_FILE}

\* mutant: both jobs are given the same state file
JobFilesShared == [j \in Jobs |-> FASTAPI_FILE]

\* the state_file argument main passes for each job
JobFiles == [j \in Jobs |-> IF j = 1 THEN FASTAPI_FILE ELSE ML_FILE]

DefaultMaxPosts == 5

InitLocals ==
    /\ sent_ids = [j \in Jobs |-> {}]
    /\ new_entries = [j \in Jobs |-> <<>>]
    /\ pos = [j \in Jobs |-> 0]
    /\ trace = [j \in Jobs |-> <<>>]
    /\ startFile = [j \in Jobs |-> file[state_file[j]]]
    /\ id_args = <<>>
    /\ id_out = <<>>
    /\ prev = [j \in Jobs |-> NoPrev]
    /\ recorded = [j \in Jobs |-> {}]
    /\ fut = 1
    /\ mainExc = None
    /\ mainLog = <<>>
    /\ interrupts = 0

\* the process as started by the scheduler: main is about to submit the jobs
Init ==
    /\ MAX_POSTS = DefaultMaxPosts
    /\ webhook \in [Jobs -> {"", "hook"}]
    /\ feed_url \in [Jobs -> {"", "url"}]
    /\ feed \in [Jobs -> CoordFeeds]
    /\ state_file = JobFiles
    /\ file \in [StateFiles -> {FileMissing, save_sent({"g1"})}]
    /\ pc = [j \in Jobs |-> "NotSubmitted"]
    /\ runs = [j \in Jobs |-> 1]
    /\ mainpc = "submit"
    /\ InitLocals

\* send_updates called directly for job 1, run after run
InitRuns ==
    /\ MAX_POSTS \in -1..MaxPosts
    /\ webhook \in [Jobs -> {"", "hook"}] /\ webhook[2] = ""
    /\ feed_url \in [Jobs -> {"", "url"}] /\ feed_url[2] = ""
    /\ feed \in [Jobs -> FeedsUpTo(MaxFeedLen)] /\ feed[2] = <<>>
    /\ state_file = JobFiles
    /\ file \in [StateFiles -> InitFiles] /\ file[ML_FILE] = FileMissing
    /\ pc = [j \in Jobs |-> IF j = 1 THEN "Idle" ELSE "NotSubmitted"]
    /\ runs = [j \in Jobs |-> IF j = 1 THEN 1 ELSE 0]
    /\ mainpc = "off"
    /\ InitLocals

\* ------------------------------------------------------ send_updates(j)
\* mutant: only the webhook is checked
CheckConfigWebhookOnly(j) ==
    /\ pc[j] = "Idle"
    /\ pc' = [pc EXCEPT ![j] = IF webhook[j] = "" THEN "AbortedConfig" ELSE "LoadingState"]
    /\ UNCHANGED <<file, sent_ids, new_entries, pos, trace, startFile>>
    /\ UNCHANGED <<cfgVars, idVars, runVars, mainVars>>

CheckConfig(j) ==
    /\ pc[j] = "Idle"
    /\ pc' = [pc EXCEPT ![j] =
                IF webhook[j] = "" \/ feed_url[j] = ""
                THEN "AbortedConfig" ELSE "LoadingState"]
    /\ UNCHANGED <<file, sent_ids, new_entries, pos, trace, startFile>>
    /\ UNCHANGED <<cfgVars, idVars, runVars, mainVars>>

\* mutant: an unparsable state file raises out of send_updates
LoadStateRaisingOnCorrupt(j) ==
    /\ pc[j] = "LoadingState"
    /\ IF file[state_file[j]].kind = "corrupt"
       THEN /\ pc' = [pc EXCEPT ![j] = "AbortedFetch"]
            /\ UNCHANGED <<sent_ids, trace>>
       ELSE /\ sent_ids' = [sent_ids EXCEPT ![j] = load_sent(file[state_file[j]])]
            /\ trace' = [trace EXCEPT ![j] = Append(@, [op |-> "load"])]
            /\ pc' = [pc EXCEPT ![j] = "Fetching"]
    /\ UNCHANGED <<file, new_entries, pos, startFile>>
    /\ UNCHANGED <<cfgVars, idVars, runVars, mainVars>>

LoadState(j) ==
    /\ pc[j] = "LoadingState"
    /\ sent_ids' = [sent_ids EXCEPT ![j] = load_sent(file[state_file[j]])]
    /\ trace' = [trace EXCEPT ![j] = Append(@, [op |-> "load"])]
    /\ pc' = [pc EXCEPT ![j] = "Fetching"]
    /\ UNCHANGED <<file, new_entries, pos, startFile>>
    /\ UNCHANGED <<cfgVars, idVars, runVars, mainVars>>

\* mutant: the early return on an empty list is missing
FetchWithoutEarlyReturn(j) ==
    /\ pc[j] = "Fetching"
    /\ LET new == fetch_new_entries(feed[j], sent_ids[j], MAX_POSTS)
       IN  /\ new_entries' = [new_entries EXCEPT ![j] = new]
           /\ pc' = [pc EXCEPT ![j] = IF new = <<>> THEN "Persisting" ELSE "Delivering"]
    /\ trace' = [trace EXCEPT ![j] = Append(@, [op |-> "fetch", ok |-> TRUE, entries |-> feed[j]])]
    /\ UNCHANGED <<file, sent_ids, pos, startFile>>
    /\ UNCHANGED <<cfgVars, idVars, runVars, mainVars>>

Fetch(j) ==
    /\ pc[j] = "Fetching"
    /\ LET new == fetch_new_entries(feed[j], sent_ids[j], MAX_POSTS)
       IN  /\ new_entries' = [new_entries EXCEPT ![j] = new]
           /\ pc' = [pc EXCEPT ![j] = IF new = <<>> THEN "Done" ELSE "Delivering"]
    /\ trace' = [trace EXCEPT ![j] = Append(@, [op |-> "fetch", ok |-> TRUE, entries |-> feed[j]])]
    /\ UNCHANGED <<file, sent_ids, pos, startFile>>
    /\ UNCHANGED <<cfgVars, idVars, runVars, mainVars>>

\* mutant: the state is written on the way out of a failed fetch
FetchRaiseSaving(j) ==
    /\ pc[j] = "Fetching"
    /\ pc' = [pc EXCEPT ![j] = "AbortedFetch"]
    /\ file' = [file EXCEPT ![state_file[j]] = save_sent(sent_ids[j])]
    /\ trace' = [trace EXCEPT ![j] = Append(@, [op |-> "fetch", ok |-> FALSE, entries |-> <<>>])]
    /\ UNCHANGED <<sent_ids, new_entries, pos, startFile>>
    /\ UNCHANGED <<cfgVars, idVars, runVars, mainVars>>

FetchRaise(j) ==
    /\ pc[j] = "Fetching"
    /\ pc' = [pc EXCEPT ![j] = "AbortedFetch"]
    /\ trace' = [trace EXCEPT ![j] = Append(@, [op |-> "fetch", ok |-> FALSE, entries |-> <<>>])]
    /\ UNCHANGED <<file, sent_ids, new_entries, pos, startFile>>
    /\ UNCHANGED <<cfgVars, idVars, runVars, mainVars>>

\* mutant: a failed POST propagates out of send_updates
DeliverAbortingOnFailure(j, ok) ==
    /\ pc[j] = "Delivering"
    /\ pos[j] < Len(new_entries[j])
    /\ LET e == new_entries[j][pos[j] + 1]
       IN  /\ trace' = [trace EXCEPT ![j] = Append(@, [op |-> "post", e |-> e, ok |-> ok])]
           /\ sent_ids' = [sent_ids EXCEPT ![j] = IF ok THEN @ \cup {stable_id(e)} ELSE @]
    /\ pos' = [pos EXCEPT ![j] = @ + 1]
    /\ pc' = [pc EXCEPT ![j] =
                IF ~ok THEN "AbortedFetch"
                ELSE IF pos[j] + 1 = Len(new_entries[j]) THEN "Persisting" ELSE "Delivering"]
    /\ UNCHANGED <<file, new_entries, startFile>>
    /\ UNCHANGED <<cfgVars, idVars, runVars, mainVars>>

\* mutant: the state file is written after every successful POST
DeliverSavingEach(j, ok) ==
    /\ pc[j] = "Delivering"
    /\ pos[j] < Len(new_entries[j])
    /\ LET e == new_entries[j][pos[j] + 1]
           ids == IF ok THEN sent_ids[j] \cup {stable_id(e)} ELSE sent_ids[j]
       IN  /\ trace' = [trace EXCEPT ![j] = Append(@, [op |-> "post", e |-> e, ok |-> ok])]
           /\ sent_ids' = [sent_ids EXCEPT ![j] = ids]
           /\ file' = [file EXCEPT ![state_file[j]] = IF ok THEN save_sent(ids) ELSE @]
    /\ pos' = [pos EXCEPT ![j] = @ + 1]
    /\ pc' = [pc EXCEPT ![j] =
                IF pos[j] + 1 = Len(new_entries[j]) THEN "Persisting" ELSE "Delivering"]
    /\ UNCHANGED <<new_entries, startFile>>
    /\ UNCHANGED <<cfgVars, idVars, runVars, mainVars>>

\* mutant: the identity is recorded whether or not the POST succeeded
DeliverRecordingFailures(j, ok) ==
    /\ pc[j] = "Delivering"
    /\ pos[j] < Len(new_entries[j])
    /\ LET e == new_entries[j][pos[j] + 1]
       IN  /\ trace' = [trace EXCEPT ![j] = Append(@, [op |-> "post", e |-> e, ok |-> ok])]
           /\ sent_ids' = [sent_ids EXCEPT ![j] = @ \cup {stable_id(e)}]
    /\ pos' = [pos EXCEPT ![j] = @ + 1]
    /\ pc' = [pc EXCEPT ![j] =
                IF pos[j] + 1 = Len(new_entries[j]) THEN "Persisting" ELSE "Delivering"]
    /\ UNCHANGED <<file, new_entries, startFile>>
    /\ UNCHANGED <<cfgVars, idVars, runVars, mainVars>>

Deliver(j, ok) ==
    /\ pc[j] = "Delivering"
    /\ pos[j] < Len(new_entries[j])
    /\ LET e == new_entries[j][pos[j] + 1]
       IN  /\ trace' = [trace EXCEPT ![j] = Append(@, [op |-> "post", e |-> e, ok |-> ok])]
           /\ sent_ids' = [sent_ids EXCEPT ![j] = IF ok THEN @ \cup {stable_id(e)} ELSE @]
    /\ pos' = [pos EXCEPT ![j] = @ + 1]
    /\ pc' = [pc EXCEPT ![j] =
                IF pos[j] + 1 = Len(new_entries[j]) THEN "Persisting" ELSE "Delivering"]
    /\ UNCHANGED <<file, new_entries, startFile>>
    /\ UNCHANGED <<cfgVars, idVars, runVars, mainVars>>

DeliverOk(j) == Deliver(j, TRUE)

DeliverFail(j) == Deliver(j, FALSE)

\* mutant: the file is read again and merged when saving
PersistMerging(j) ==
    /\ pc[j] = "Persisting"
    /\ file' = [file EXCEPT ![state_file[j]] =
                  save_sent(sent_ids[j] \cup load_sent(file[state_file[j]]))]
    /\ trace' = [trace EXCEPT ![j] = Append(@, [op |-> "save"])]
    /\ pc' = [pc EXCEPT ![j] = "Done"]
    /\ UNCHANGED <<sent_ids, new_entries, pos, startFile>>
    /\ UNCHANGED <<cfgVars, idVars, runVars, mainVars>>

Persist(j) ==
    /\ pc[j] = "Persisting"
    /\ file' = [file EXCEPT ![state_file[j]] = save_sent(sent_ids[j])]
    /\ trace' = [trace EXCEPT ![j] = Append(@, [op |-> "save"])]
    /\ pc' = [pc EXCEPT ![j] = "Done"]
    /\ UNCHANGED <<sent_ids, new_entries, pos, startFile>>
    /\ UNCHANGED <<cfgVars, idVars, runVars, mainVars>>

JobStep(j) ==
    \/ CheckConfig(j)
    \/ LoadState(j)
    \/ Fetch(j)
    \/ FetchRaise(j)
    \/ DeliverOk(j)
    \/ DeliverFail(j)
    \/ Persist(j)

\* --------------------------------------------------- successive runs
\* the feed between two polls: unchanged, or one more entry at the front
NextFeeds(f) ==
    {f} \cup {SubSeq(<<e>> \o f, 1, IF Len(f) + 1 > MaxFeedLen THEN MaxFeedLen ELSE Len(f) + 1) : e \in Entries}

Summary(j) ==
    [valid |-> TRUE, pc |-> pc[j], trace |-> trace[j], feed |-> feed[j],
     new |-> new_entries[j], file |-> file[state_file[j]]]

NewRun(j) ==
    /\ pc[j] \in Terminal
    /\ runs[j] < MaxRuns
    /\ runs' = [runs EXCEPT ![j] = @ + 1]
    /\ prev' = [prev EXCEPT ![j] = Summary(j)]
    /\ recorded' = [recorded EXCEPT ![j] =
                      IF Saves(trace[j]) # <<>>
                      THEN @ \cup {stable_id(ev.e) : ev \in Range(Okays(trace[j]))}
                      ELSE @]
    /\ feed' \in {[feed EXCEPT ![j] = f] : f \in NextFeeds(feed[j])}
    /\ pc' = [pc EXCEPT ![j] = "Idle"]
    /\ sent_ids' = [sent_ids EXCEPT ![j] = {}]
    /\ new_entries' = [new_entries EXCEPT ![j] = <<>>]
    /\ pos' = [pos EXCEPT ![j] = 0]
    /\ trace' = [trace EXCEPT ![j] = <<>>]
    /\ startFile' = [startFile EXCEPT ![j] = file[state_file[j]]]
    /\ UNCHANGED <<file, cfgVars, idVars, mainVars>>

\* ---------------------------------------------------------------- main
MainSubmit ==
    /\ mainpc = "submit"
    /\ pc' = [pc EXCEPT ![fut] = "Idle"]
    /\ IF fut = NJobs
       THEN mainpc' = "wait" /\ fut' = 1
       ELSE mainpc' = "submit" /\ fut' = fut + 1
    /\ UNCHANGED <<file, sent_ids, new_entries, pos, trace, startFile>>
    /\ UNCHANGED <<mainExc, mainLog, interrupts, cfgVars, idVars, runVars>>

\* mutant: a failed job makes main cancel the jobs that have not started
MainResultCancelling ==
    /\ mainpc = "wait"
    /\ pc[fut] \in Terminal
    /\ IF pc[fut] = "AbortedConfig"
       THEN /\ mainExc' = "SystemExit"
            /\ mainpc' = "shutdown"
            /\ UNCHANGED <<fut, mainLog>>
       ELSE /\ mainLog' = IF pc[fut] = "AbortedFetch"
                          THEN Append(mainLog, <<"Error in job", fut>>)
                          ELSE mainLog
            /\ IF fut = NJobs
               THEN mainpc' = "shutdown" /\ fut' = fut
               ELSE mainpc' = "wait" /\ fut' = fut + 1
            /\ UNCHANGED mainExc
    /\ pc' = IF pc[fut] = "Done"
             THEN pc
             ELSE [j \in Jobs |-> IF pc[j] = "Idle" THEN "Cancelled" ELSE pc[j]]
    /\ UNCHANGED <<file, sent_ids, new_entries, pos, trace, startFile>>
    /\ UNCHANGED <<interrupts, cfgVars, idVars, runVars>>

\* future.result() of a finished job, and the except clauses around it
MainResult ==
    /\ mainpc = "wait"
    /\ pc[fut] \in Terminal
    /\ IF pc[fut] = "AbortedConfig"
       THEN /\ mainExc' = "SystemExit"
            /\ mainpc' = "shutdown"
            /\ UNCHANGED <<fut, mainLog>>
       ELSE /\ mainLog' = IF pc[fut] = "AbortedFetch"
                          THEN Append(mainLog, <<"Error in job", fut>>)
                          ELSE mainLog
            /\ IF fut = NJobs
               THEN mainpc' = "shutdown" /\ fut' = fut
               ELSE mainpc' = "wait" /\ fut' = fut + 1
            /\ UNCHANGED mainExc
    /\ UNCHANGED <<interrupts, cfgVars, idVars, jobVars, runVars>>

\* KeyboardInterrupt inside the try: the handler logs, then names STOP_EVENT
MainInterrupt ==
    /\ mainpc = "wait"
    /\ interrupts < MaxInterrupts
    /\ interrupts' = interrupts + 1
    /\ mainLog' = Append(mainLog, <<"Interrupted by user.", fut>>)
    /\ mainExc' = "NameError"
    /\ mainpc' = "shutdown"
    /\ UNCHANGED <<fut, cfgVars, idVars, jobVars, runVars>>

\* leaving the with block: shutdown(wait=True) joins the workers
MainShutdown ==
    /\ mainpc = "shutdown"
    /\ \A j \in Jobs : pc[j] \in Terminal
    /\ IF mainExc = None
       THEN mainpc' = "returned" /\ mainLog' = Append(mainLog, <<"ALL Done.", 0>>)
       ELSE mainpc' = "raised" /\ mainLog' = mainLog
    /\ UNCHANGED <<fut, mainExc, interrupts, cfgVars, idVars, jobVars, runVars>>

\* KeyboardInterrupt while shutdown(wait=True) is joining a worker
MainShutdownInterrupt ==
    /\ mainpc = "shutdown"
    /\ interrupts < MaxInterrupts
    /\ interrupts' = interrupts + 1
    /\ mainExc' = "KeyboardInterrupt"
    /\ mainpc' = "raised"
    /\ UNCHANGED <<fut, mainLog, cfgVars, idVars, jobVars, runVars>>

MainStep ==
    \/ MainSubmit
    \/ MainResult
    \/ MainInterrupt
    \/ MainShutdown
    \/ MainShutdownInterrupt

\* ------------------------------------------------------- specifications
Next ==
    \/ MainSubmit
    \/ MainResult
    \/ MainInterrupt
    \/ MainShutdown
    \/ MainShutdownInterrupt
    \/ \E j \in Jobs : CheckConfig(j)
    \/ \E j \in Jobs : LoadState(j)
    \/ \E j \in Jobs : Fetch(j)
    \/ \E j \in Jobs : FetchRaise(j)
    \/ \E j \in Jobs : DeliverOk(j)
    \/ \E j \in Jobs : DeliverFail(j)
    \/ \E j \in Jobs : Persist(j)

Spec == Init /\ [][Next]_vars

\* worker threads and the main thread are scheduled by the OS
FairSpec == Spec /\ (\A j \in Jobs : WF_vars(JobStep(j))) /\ WF_vars(MainSubmit \/ MainResult \/ MainShutdown)

NextRuns ==
    \/ CheckConfig(1)
    \/ LoadState(1)
    \/ Fetch(1)
    \/ FetchRaise(1)
    \/ DeliverOk(1)
    \/ DeliverFail(1)
    \/ Persist(1)
    \/ NewRun(1)

SpecRuns == InitRuns /\ [][NextRuns]_vars

\* one call of send_updates for job 1, on a thread that keeps being scheduled
NextOnce ==
    \/ CheckConfig(1)
    \/ LoadState(1)
    \/ Fetch(1)
    \/ FetchRaise(1)
    \/ DeliverOk(1)
    \/ DeliverFail(1)
    \/ Persist(1)

FairSpecOnce == InitRuns /\ [][NextOnce]_vars /\ WF_vars(JobStep(1))

\* ------------------------------------------- overlapping invocations
\* two invocations of the program run send_updates for the same job: same
\* webhook, same feed, same state file, nothing ordering them
InitOverlap ==
    /\ MAX_POSTS = DefaultMaxPosts
    /\ webhook = [j \in Jobs |-> "hook"]
    /\ feed_url = [j \in Jobs |-> "url"]
    /\ state_file = [j \in Jobs |-> FASTAPI_FILE]
    /\ \E f \in FeedsUpTo(MaxOverlapFeedLen) : feed = [j \in Jobs |-> f]
    /\ file \in [StateFiles -> InitFiles] /\ file[ML_FILE] = FileMissing
    /\ pc = [j \in Jobs |-> "Idle"]
    /\ runs = [j \in Jobs |-> 1]
    /\ mainpc = "off"
    /\ InitLocals

NextOverlap ==
    \/ \E j \in Jobs : CheckConfig(j)
    \/ \E j \in Jobs : LoadState(j)
    \/ \E j \in Jobs : Fetch(j)
    \/ \E j \in Jobs : FetchRaise(j)
    \/ \E j \in Jobs : DeliverOk(j)
    \/ \E j \in Jobs : DeliverFail(j)
    \/ \E j \in Jobs : Persist(j)

SpecOverlap == InitOverlap /\ [][NextOverlap]_vars

\* ------------------------------------------------- stable_id on its own
\* entries with any subset of the keys stable_id and send_updates read
IdKeys == {"id", "guid", "title", "link", "published"}
IdEntries == UNION {[D -> {"", "a"}] : D \in SUBSET IdKeys}

InitId ==
    /\ MAX_POSTS = DefaultMaxPosts
    /\ webhook = [j \in Jobs |-> ""]
    /\ feed_url = [j \in Jobs |-> ""]
    /\ state_file = JobFiles
    /\ feed = [j \in Jobs |-> <<>>]
    /\ file = [f \in StateFiles |-> FileMissing]
    /\ pc = [j \in Jobs |-> "NotSubmitted"]
    /\ sent_ids = [j \in Jobs |-> {}]
    /\ new_entries = [j \in Jobs |-> <<>>]
    /\ pos = [j \in Jobs |-> 0]
    /\ trace = [j \in Jobs |-> <<>>]
    /\ startFile = [j \in Jobs |-> FileMissing]
    /\ runs = [j \in Jobs |-> 0]
    /\ prev = [j \in Jobs |-> NoPrev]
    /\ recorded = [j \in Jobs |-> {}]
    /\ mainpc = "off"
    /\ fut = 1
    /\ mainExc = None
    /\ mainLog = <<>>
    /\ interrupts = 0
    /\ id_args \in IdEntries \X IdEntries
    /\ id_out = <<>>

CallStableId ==
    /\ id_out = <<>>
    /\ id_out' = <<stable_id(id_args[1]), stable_id(id_args[2])>>
    /\ UNCHANGED <<id_args, cfgVars, jobVars, runVars, mainVars>>

SpecId == InitId /\ [][CallStableId]_vars

TypeOK ==
    /\ pc \in [Jobs -> {"NotSubmitted", "Idle", "LoadingState", "Fetching", "Delivering", "Persisting"} \cup Terminal]
    /\ \A j \in Jobs : sent_ids[j] \subseteq Range(IdOrder)
    /\ \A j \in Jobs : pos[j] \in 0..Len(new_entries[j])
    /\ mainpc \in {"off", "submit", "wait", "shutdown", "returned", "raised"}

\* ------------------------------------------------------------ properties
PostedEntries(tr) == [n \in 1..Len(Posts(tr)) |-> Posts(tr)[n].e]

Fetched(tr) == \E n \in 1..Len(tr) : tr[n].op = "fetch" /\ tr[n].ok

\* C1: a run whose deliveries all succeeded and whose state was saved is
\* followed, on the unchanged feed, by a run that attempts no delivery; and
\* no run attempts an entry whose identity an earlier run persisted after
\* delivering it.
IdempotentRuns ==
    /\ ( /\ prev[1].valid
         /\ Posts(prev[1].trace) # <<>>
         /\ Fails(prev[1].trace) = <<>>
         /\ Saves(prev[1].trace) # <<>>
         /\ feed[1] = prev[1].feed )
       => (Posts(trace[1]) = <<>> /\ new_entries[1] = <<>>)
    /\ \A n \in 1..Len(Posts(trace[1])) :
          stable_id(Posts(trace[1])[n].e) \notin recorded[1]

IdempotentRunsWitness ==
    /\ prev[1].valid
    /\ Len(Posts(prev[1].trace)) >= 2
    /\ Fails(prev[1].trace) = <<>>
    /\ Saves(prev[1].trace) # <<>>
    /\ feed[1] = prev[1].feed
    /\ Fetched(trace[1])
    /\ pc[1] = "Done"
    /\ Posts(trace[1]) = <<>>

\* C2: the identity of an entry whose delivery failed is absent from the
\* state persisted by that run, and the next run on the same feed content
\* attempts that entry again.
FailedEntryRetried ==
    /\ (pc[1] = "Done" /\ Saves(trace[1]) # <<>>)
       => \A n \in 1..Len(Fails(trace[1])) :
             stable_id(Fails(trace[1])[n].e) \notin load_sent(file[state_file[1]])
    /\ ( /\ prev[1].valid
         /\ feed[1] = prev[1].feed
         /\ pc[1] = "Done"
         /\ Fetched(trace[1]) )
       => \A n \in 1..Len(Fails(prev[1].trace)) :
             Fails(prev[1].trace)[n].e \in Range(PostedEntries(trace[1]))

\* feed positions a run considers and finds unsent
Considered(j) == 1..Len(Slice(feed[j], MAX_POSTS))

NewPositions(j) ==
    {p \in Considered(j) : stable_id(feed[j][p]) \notin load_sent(startFile[j])}

KthLargest(S, k) == CHOOSE p \in S : Cardinality({q \in S : q > p}) = k - 1

\* C3: the k-th delivery attempt of a run is the entry at the k-th largest
\* feed position among the new entries, so attempts go in reverse feed
\* order, older before newer.
ReverseFeedOrder ==
    /\ Len(Posts(trace[1])) <= Cardinality(NewPositions(1))
    /\ \A k \in 1..Len(Posts(trace[1])) :
          Posts(trace[1])[k].e = feed[1][KthLargest(NewPositions(1), k)]

ReverseFeedOrderWitness ==
    /\ feed[1] = <<EntryA, EntryB, EntryD>>
    /\ pc[1] = "Done"
    /\ PostedEntries(trace[1]) = <<EntryD, EntryB, EntryA>>

\* C4: with MAX_POSTS >= 0 a run attempts at most MAX_POSTS deliveries,
\* every attempted entry stands among the first MAX_POSTS feed entries, and
\* every identity the run adds to the state file belongs to one of those.
TruncatedCandidates ==
    MAX_POSTS >= 0 =>
      /\ Len(Posts(trace[1])) <= MAX_POSTS
      /\ \A n \in 1..Len(Posts(trace[1])) :
            \E p \in 1..Len(feed[1]) : p <= MAX_POSTS /\ feed[1][p] = Posts(trace[1])[n].e
      /\ \A x \in load_sent(file[state_file[1]]) \ load_sent(startFile[1]) :
            \E p \in 1..Len(feed[1]) : p <= MAX_POSTS /\ stable_id(feed[1][p]) = x

TruncatedCandidatesWitness ==
    /\ MAX_POSTS = 1
    /\ feed[1] = <<EntryA, EntryB, EntryB>>
    /\ startFile[1] = FileMissing
    /\ pc[1] = "Done"
    /\ PostedEntries(trace[1]) = <<EntryA>>
    /\ load_sent(file[state_file[1]]) = {"g1"}

Other(j) == 3 - j

Aborted == {"AbortedConfig", "AbortedFetch"}

\* C5: once one job's pipeline has failed, the other job still reaches a
\* terminal state of its own, with its state persisted if it had new entries.
FailureIsolation ==
    \A j \in Jobs :
      (pc[Other(j)] \in Aborted)
        ~> ( /\ pc[j] \in Terminal
             /\ new_entries[j] # <<>> =>
                  (Saves(trace[j]) # <<>> /\ file[state_file[j]] = save_sent(sent_ids[j])) )

FailureIsolationWitness ==
    \E j \in Jobs :
      /\ pc[Other(j)] \in Aborted
      /\ mainpc = "raised"
      /\ pc[j] = "Done"
      /\ Okays(trace[j]) # <<>>
      /\ file[state_file[j]] = save_sent(sent_ids[j])

\* C6: without an interruption, main ends by returning, no exception
\* escapes it, and the failure of every failed job has been logged by main.
CoordinatorCatchesAll ==
    (mainpc \in {"returned", "raised"} /\ interrupts = 0)
      => /\ mainpc = "returned"
         /\ mainExc = None
         /\ \A j \in Jobs : pc[j] \in Aborted => <<"Error in job", j>> \in Range(mainLog)

\* C7: a job with a blank webhook or feed URL goes straight to the
\* configuration abort: no load, no fetch, no POST, no write of its file.
ConfigErrorAborts ==
    ((webhook[1] = "" \/ feed_url[1] = "") /\ pc[1] # "Idle")
      => /\ pc[1] = "AbortedConfig"
         /\ trace[1] = <<>>
         /\ file[state_file[1]] = startFile[1]

ConfigErrorAbortsWitness ==
    /\ webhook[1] = "hook"
    /\ feed_url[1] = ""
    /\ feed[1] # <<>>
    /\ pc[1] = "AbortedConfig"
    /\ file[state_file[1]] = FileMissing

\* C8: a job whose fetch raised has attempted no delivery and written
\* nothing: its state file is what it was when the run started.
FetchErrorLeavesState ==
    pc[1] = "AbortedFetch"
      => /\ Posts(trace[1]) = <<>>
         /\ Saves(trace[1]) = <<>>
         /\ file[state_file[1]] = startFile[1]

FetchErrorLeavesStateWitness ==
    /\ pc[1] = "AbortedFetch"
    /\ startFile[1] = FileCorrupt
    /\ file[state_file[1]] = FileCorrupt
    /\ feed[1] # <<>>

\* C9: whichever POSTs fail, a run with new entries attempts each of them
\* once, in order, before it persists, and a run that is delivering always
\* goes on to persist and finish.
BatchNeverAborted ==
    /\ []( (pc[1] \in {"Persisting", "Done"} /\ new_entries[1] # <<>>)
             => PostedEntries(trace[1]) = new_entries[1] )
    /\ []( pc[1] \in Aborted => Posts(trace[1]) = <<>> )
    /\ (pc[1] = "Delivering") ~> (pc[1] = "Done" /\ Saves(trace[1]) # <<>>)

BatchNeverAbortedWitness ==
    /\ pc[1] = "Done"
    /\ Len(new_entries[1]) = 3
    /\ Len(Fails(trace[1])) = 3
    /\ Saves(trace[1]) # <<>>

\* C10: a run writes its state file at most once; the write is the last
\* thing a run with new entries does, after every entry was attempted and
\* whatever the outcomes; until then the file is as the run found it.
SinglePersistAfterBatch ==
    /\ Len(Saves(trace[1])) <= 1
    /\ Saves(trace[1]) = <<>> => file[state_file[1]] = startFile[1]
    /\ Saves(trace[1]) # <<>>
         => /\ trace[1][Len(trace[1])].op = "save"
            /\ new_entries[1] # <<>>
            /\ Len(Posts(trace[1])) = Len(new_entries[1])
    /\ (pc[1] = "Done" /\ new_entries[1] # <<>>) => Len(Saves(trace[1])) = 1

SinglePersistAfterBatchWitness ==
    /\ pc[1] = "Done"
    /\ Len(Posts(trace[1])) >= 2
    /\ Posts(trace[1])[1].ok
    /\ ~Posts(trace[1])[Len(Posts(trace[1]))].ok
    /\ Len(Saves(trace[1])) = 1
    /\ file[state_file[1]] # startFile[1]

OkIds(tr) == {stable_id(ev.e) : ev \in Range(Okays(tr))}

\* C11: once a run has persisted, the state file holds exactly the
\* identities loaded at the start of the run together with the identities of
\* the entries this run delivered successfully.
PersistedIsLoadedPlusDelivered ==
    Saves(trace[1]) # <<>>
      => /\ load_sent(file[state_file[1]]) = load_sent(startFile[1]) \cup OkIds(trace[1])
         /\ file[state_file[1]] = save_sent(load_sent(startFile[1]) \cup OkIds(trace[1]))

PersistedIsLoadedPlusDeliveredWitness ==
    /\ startFile[1] = save_sent({"g1"})
    /\ feed[1] = <<EntryB, EntryA>>
    /\ PostedEntries(trace[1]) = <<EntryB>>
    /\ Okays(trace[1]) # <<>>
    /\ pc[1] = "Done"
    /\ load_sent(file[state_file[1]]) = {"g1", "sha256:t2|l2"}

\* C12: within one run no identity is POSTed twice, and the entry POSTed for
\* an identity is the first considered feed entry that has it.
NoIdentityDeliveredTwice ==
    /\ \A a, b \in 1..Len(Posts(trace[1])) :
          stable_id(Posts(trace[1])[a].e) = stable_id(Posts(trace[1])[b].e) => a = b
    /\ \A a \in 1..Len(Posts(trace[1])) :
          \E p \in Considered(1) :
            /\ feed[1][p] = Posts(trace[1])[a].e
            /\ \A q \in 1..(p - 1) : stable_id(feed[1][q]) # stable_id(feed[1][p])

\* C13: a run whose fetch yields no new entry is Done at once: it makes no
\* POST and does not write or create the state file.
NoNewEntriesNoWrite ==
    (Fetched(trace[1]) /\ new_entries[1] = <<>>)
      => /\ pc[1] = "Done"
         /\ Posts(trace[1]) = <<>>
         /\ Saves(trace[1]) = <<>>
         /\ file[state_file[1]] = startFile[1]

NoNewEntriesNoWriteWitness ==
    /\ pc[1] = "Done"
    /\ Fetched(trace[1])
    /\ feed[1] = <<EntryA, EntryD>>
    /\ MAX_POSTS >= 2
    /\ startFile[1] = save_sent({"g1"})
    /\ new_entries[1] = <<>>
    /\ file[state_file[1]] = startFile[1]

Unreadable(f) == f.kind \in {"missing", "corrupt"}

\* C14: with a missing or corrupt state file the load gives the empty set
\* and raises nothing, and the run treats every considered feed entry as
\* new: all of them are attempted, in reverse feed order.
LoadNeverFails ==
    Unreadable(startFile[1])
      => /\ pc[1] = "Fetching" => sent_ids[1] = {}
         /\ pc[1] = "AbortedFetch"
              => (trace[1] # <<>> /\ trace[1][Len(trace[1])].op = "fetch")
         /\ Fetched(trace[1])
              => /\ Len(new_entries[1]) = Cardinality(Considered(1))
                 /\ \A k \in 1..Len(new_entries[1]) :
                       new_entries[1][k] = feed[1][Len(new_entries[1]) + 1 - k]
         /\ (Fetched(trace[1]) /\ pc[1] \in {"Persisting", "Done"})
              => PostedEntries(trace[1]) = new_entries[1]

LoadNeverFailsWitness ==
    /\ startFile[1] = FileCorrupt
    /\ feed[1] = <<EntryA, EntryB, EntryD>>
    /\ MAX_POSTS = 2
    /\ pc[1] = "Done"
    /\ PostedEntries(trace[1]) = <<EntryB, EntryA>>

\* C15: main has returned or raised only when every job's pipeline is in a
\* terminal state.
MainEndsAfterJobs ==
    mainpc \in {"returned", "raised"} => \A j \in Jobs : pc[j] \in Terminal

InterruptLogged == \E n \in 1..Len(mainLog) : mainLog[n][1] = "Interrupted by user."

\* C16: an interruption observed while main waits for a result is logged
\* and is the exception that leaves main, and by then every job has run to
\* its end, its state persisted if it had new entries.
InterruptPropagates ==
    (InterruptLogged /\ mainpc = "raised")
      => /\ mainExc = "KeyboardInterrupt"
         /\ \A j \in Jobs :
              /\ pc[j] \in Terminal
              /\ (pc[j] = "Done" /\ new_entries[j] # <<>>) => Saves(trace[j]) # <<>>

\* C17: whatever the interleaving, a job's state file is touched by that
\* job alone: it holds its content from the start until the job saves, and
\* then what the job computes from its own file and its own deliveries; the
\* identities a job holds in memory come from its own file and deliveries.
OwnStateFileOnly ==
    \A j \in Jobs :
      /\ state_file[j] # state_file[Other(j)]
      /\ file[state_file[j]] =
            IF Saves(trace[j]) = <<>>
            THEN startFile[j]
            ELSE save_sent(load_sent(startFile[j]) \cup OkIds(trace[j]))
      /\ pc[j] \in {"Fetching", "Delivering", "Persisting", "Done", "AbortedFetch"}
           => sent_ids[j] = load_sent(startFile[j]) \cup OkIds(trace[j])

OwnStateFileOnlyWitness ==
    /\ pc[1] = "Done" /\ pc[2] = "Done"
    /\ startFile[1] = FileMissing /\ startFile[2] = save_sent({"g1"})
    /\ feed[1] = <<EntryB, EntryA>> /\ feed[2] = <<EntryB, EntryA>>
    /\ Len(Okays(trace[1])) = 2 /\ Len(Okays(trace[2])) = 1
    /\ file[FASTAPI_FILE] = save_sent({"g1", "sha256:t2|l2"})
    /\ file[ML_FILE] = save_sent({"g1", "sha256:t2|l2"})

ProviderId(e) ==
    IF "id" \in DOMAIN e /\ e["id"] # "" THEN e["id"]
    ELSE IF "guid" \in DOMAIN e /\ e["guid"] # "" THEN e["guid"]
    ELSE None

TitleOf(e) == IF "title" \in DOMAIN e THEN e["title"] ELSE ""

LinkOf(e) == IF "link" \in DOMAIN e THEN e["link"] ELSE ""

\* C18: the identity of an entry with a non-empty provider id is that id,
\* so equal provider ids give equal identities; two entries without one have
\* equal identities whenever their titles and links agree, a missing title
\* or link counting as the empty string, whatever their other fields.
IdentityDerivation ==
    id_out # <<>>
      => LET e1 == id_args[1]
             e2 == id_args[2]
         IN  /\ ProviderId(e1) # None => id_out[1] = ProviderId(e1)
             /\ (ProviderId(e1) # None /\ ProviderId(e1) = ProviderId(e2))
                  => id_out[1] = id_out[2]
             /\ ( /\ ProviderId(e1) = None /\ ProviderId(e2) = None
                  /\ TitleOf(e1) = TitleOf(e2) /\ LinkOf(e1) = LinkOf(e2) )
                  => id_out[1] = id_out[2]

IdentityDerivationWitness ==
    /\ id_out # <<>>
    /\ id_args[1] = [id |-> "", link |-> "a"]
    /\ id_args[2] = [title |-> "", link |-> "a", published |-> "a"]
    /\ id_out[1] = id_out[2]
    /\ id_out[1] = "sha256:|a"

\* C19: with two overlapping runs on one state file nothing merges their
\* writes: the file is its initial content or exactly the set held by one
\* run that has saved, so a later save replaces an earlier one.
LastWriteWins ==
    file[FASTAPI_FILE] \in
      {startFile[1]} \cup {save_sent(sent_ids[j]) : j \in {i \in Jobs : Saves(trace[i]) # <<>>}}

\* both runs delivered the same entry, and an identity one run delivered
\* and saved is missing from the file after the other run's later save
LastWriteWinsWitness ==
    /\ pc[1] = "Done" /\ pc[2] = "Done"
    /\ \E a \in 1..Len(Okays(trace[1])), b \in 1..Len(Okays(trace[2])) :
          Okays(trace[1])[a].e = Okays(trace[2])[b].e
    /\ \E j \in Jobs :
          /\ Saves(trace[j]) # <<>>
          /\ \E x \in OkIds(trace[j]) : x \notin load_sent(file[FASTAPI_FILE])

====
